---- MODULE Spec2Model ----
(***************************************************************************)
(* State-machine model of spotifystreamsmlmodels.py: the statements of the *)
(* script are the actions, the script's global names are the variables.    *)
(* Library calls (pandas, scikit-learn, xgboost, numpy) are modelled by    *)
(* what they do to those globals; quantities produced by numerical         *)
(* optimisation (predictions, per-fold errors, anomaly scores) are inputs  *)
(* drawn from small sets.                                                  *)
(***************************************************************************)
EXTENDS Integers, Sequences, FiniteSets, TLC

VARIABLES
    pc,            \* the statement about to run; "failed" after an uncaught exception
    error,         \* the uncaught exception: [line, kind, model]
    data,          \* the DataFrame `data`: a sequence of rows, in row order
    np_random,     \* numpy's global generator: the seed it was last given, draws since
    X, y,          \* feature matrix and target vector (sequences, row order)
    X_train, X_test, y_train, y_test,
    scaler,        \* the StandardScaler: its fitted statistics and its fit history
    X_train_scaled, X_test_scaled, X_scaled,
    model,         \* the LinearRegression object
    grid_search,   \* the GridSearchCV object
    best_neural_net,
    xgb_model,
    dtrain, dtest, dall,
    cv_results,    \* the frame returned by the first xgb.cv
    y_pred, mse, rmse, mae, r2,
    printed,       \* what the print statements have written, per model
    cv_folds,      \* the folds each cross-validation of the comparison used
    cv_detail,     \* the per-fold scores / per-round frame each comparison score averages
    cross_val_score_lin_reg, cross_val_score_nn, cross_val_score_xgboost,
    average_scores,
    rerun, snap    \* notebook re-execution: the stage re-run and the state before it

prepVars  == <<data, np_random>>
splitVars == <<X, y, X_train, X_test, y_train, y_test>>
scaleVars == <<scaler, X_train_scaled, X_test_scaled, X_scaled>>
fitVars   == <<model, grid_search, best_neural_net, xgb_model, dtrain, dtest, dall, cv_results>>
evalVars  == <<y_pred, mse, rmse, mae, r2, printed>>
cvVars    == <<cv_folds, cv_detail, cross_val_score_lin_reg, cross_val_score_nn,
               cross_val_score_xgboost, average_scores>>
runVars   == <<rerun, snap>>
vars == <<pc, error, prepVars, splitVars, scaleVars, fitVars, evalVars, cvVars, runVars>>

(***************************************************************************)
(* Bounds of the model.                                                    *)
(***************************************************************************)
MaxSmallRows == 2      \* tables with arbitrary cell contents have 1..MaxSmallRows rows
MinRows == 7           \* well-formed tables have MinRows..MaxRows rows
MaxRows == 8
MaxReruns == 1         \* stage re-executions per notebook session

(***************************************************************************)
(* Program constants.                                                      *)
(***************************************************************************)
Contamination == 5         \* IsolationForest(contamination=0.05), in percent
TestPercent == 20          \* train_test_split(test_size=0.2), in percent
RandomState == 42          \* random_state=42 / seed=42
NFold == 5                 \* cv=5, nfold=5
NumBoostRound == 100       \* num_boost_round=100

(***************************************************************************)
(* Cells.  A cell of the frame is a string, a number or NaN; a column that *)
(* does not exist yet is Absent.  All cells are records of one shape.      *)
(***************************************************************************)
Str(s)  == [t |-> "str", s |-> s, n |-> 0]
Num(n)  == [t |-> "num", s |-> <<>>, n |-> n]
NaN     == [t |-> "nan", s |-> <<>>, n |-> 0]
Absent  == [t |-> "absent", s |-> <<>>, n |-> 0]

Digits == {"0", "1", "2", "3", "4", "5", "6", "7", "8", "9"}

DigitVal(c) ==
    CASE c = "0" -> 0 [] c = "1" -> 1 [] c = "2" -> 2 [] c = "3" -> 3
      [] c = "4" -> 4 [] c = "5" -> 5 [] c = "6" -> 6 [] c = "7" -> 7
      [] c = "8" -> 8 [] c = "9" -> 9

IsDigits(s) == Len(s) > 0 /\ \A i \in 1..Len(s) : s[i] \in Digits

RECURSIVE ParseDigits(_)
ParseDigits(s) ==
    IF Len(s) = 0 THEN 0
    ELSE 10 * ParseDigits(SubSeq(s, 1, Len(s) - 1)) + DigitVal(s[Len(s)])

\* str.replace(',', ''): the string without its commas
RECURSIVE StrReplaceComma(_)
StrReplaceComma(s) ==
    IF Len(s) = 0 THEN <<>>
    ELSE IF Head(s) = "," THEN StrReplaceComma(Tail(s))
    ELSE <<Head(s)>> \o StrReplaceComma(Tail(s))

(***************************************************************************)
(* pd.read_csv: a column whose every field is empty or a plain number is   *)
(* numeric (empty fields NaN); any other column is an object column of     *)
(* strings (empty fields NaN).                                             *)
(***************************************************************************)
ColumnIsNumericText(text, col) ==
    \A i \in 1..Len(text) : text[i][col] = <<>> \/ IsDigits(text[i][col])

ReadCell(text, i, col) ==
    IF text[i][col] = <<>> THEN NaN
    ELSE IF ColumnIsNumericText(text, col) THEN Num(ParseDigits(text[i][col]))
    ELSE Str(text[i][col])

read_csv(text) ==
    [i \in 1..Len(text) |->
        [id |-> i,
         year |-> ReadCell(text, i, "year"),
         month |-> ReadCell(text, i, "month"),
         day |-> ReadCell(text, i, "day"),
         deezer |-> ReadCell(text, i, "deezer"),
         shazam |-> ReadCell(text, i, "shazam"),
         streams |-> ReadCell(text, i, "streams"),
         bpm |-> ReadCell(text, i, "bpm"),
         release_date |-> Absent,
         days_since_release |-> Absent,
         anomaly |-> Absent]]

(***************************************************************************)
(* Sequence helpers.                                                       *)
(***************************************************************************)
RECURSIVE SelectIdx(_, _, _)
\* the elements s[i] with i in keep, in the order of s (boolean-mask indexing)
SelectIdx(s, keep, i) ==
    IF i > Len(s) THEN <<>>
    ELSE IF i \in keep THEN <<s[i]>> \o SelectIdx(s, keep, i + 1)
    ELSE SelectIdx(s, keep, i + 1)

Mask(s, keep) == SelectIdx(s, keep, 1)

Ids(s) == [i \in 1..Len(s) |-> s[i].id]
IdSet(s) == {s[i].id : i \in 1..Len(s)}
Range(s) == {s[i] : i \in 1..Len(s)}

RECURSIVE SumTo(_, _)
SumTo(s, i) == IF i = 0 THEN 0 ELSE s[i] + SumTo(s, i - 1)

SumSeq(s) == SumTo(s, Len(s))

(***************************************************************************)
(* The input tables.                                                       *)
(***************************************************************************)
DateTexts == {<<<<"2", "0", "2", "0">>, <<"1">>, <<"1">>>>,
              <<<<"2", "0", "2", "3">>, <<"2">>, <<"3", "0">>>>}
DeezerTexts == {<<"1", ",", "1">>, <<"x">>, <<>>}
ShazamTexts == {<<"1", ",", "1">>, <<>>}
StreamsTexts == {<<"5">>, <<"x">>}

SmallRowTexts ==
    {[year |-> d[1], month |-> d[2], day |-> d[3], deezer |-> dz, shazam |-> sh,
      streams |-> st, bpm |-> <<"1">>] :
        d \in DateTexts, dz \in DeezerTexts, sh \in ShazamTexts, st \in StreamsTexts}

DigitText(i) ==
    CASE i = 0 -> "0" [] i = 1 -> "1" [] i = 2 -> "2" [] i = 3 -> "3" [] i = 4 -> "4"
      [] i = 5 -> "5" [] i = 6 -> "6" [] i = 7 -> "7" [] i = 8 -> "8" [] i = 9 -> "9"

NumText(i) == IF i < 10 THEN <<DigitText(i)>> ELSE <<DigitText(i \div 10), DigitText(i % 10)>>

\* a well-formed table of n distinct rows
CleanText(n) ==
    [i \in 1..n |->
        [year |-> <<"2", "0", "2", "0">>, month |-> <<"1">>, day |-> <<"1">>,
         deezer |-> <<"1", ",", DigitText(i % 10)>>, shazam |-> <<"1", ",", "1">>,
         streams |-> NumText(i), bpm |-> NumText(i)]]

RECURSIVE SeqsUpTo(_, _)
SeqsUpTo(S, n) ==
    IF n = 0 THEN {<<>>}
    ELSE LET shorter == SeqsUpTo(S, n - 1)
         IN shorter \cup {Append(s, e) : s \in {t \in shorter : Len(t) = n - 1}, e \in S}

InputTexts ==
    {t \in SeqsUpTo(SmallRowTexts, MaxSmallRows) : Len(t) >= 1}
        \cup {CleanText(n) : n \in MinRows..MaxRows}

NoError == [line |-> 0, kind |-> "none", model |-> "none"]
None == [set |-> FALSE]

(***************************************************************************)
(* Calendar arithmetic of pd.to_datetime and of Timestamp subtraction.     *)
(***************************************************************************)
IsLeap(yr) == (yr % 4 = 0 /\ yr % 100 # 0) \/ yr % 400 = 0

DaysInMonth(yr, m) ==
    IF m = 2 THEN (IF IsLeap(yr) THEN 29 ELSE 28)
    ELSE IF m \in {4, 6, 9, 11} THEN 30 ELSE 31

\* days from 1970-01-01 to the civil date yr-m-d
DaysFromCivil(yr, m, d) ==
    LET y1  == IF m <= 2 THEN yr - 1 ELSE yr
        era == y1 \div 400
        yoe == y1 - era * 400
        mp  == IF m > 2 THEN m - 3 ELSE m + 9
        doy == (153 * mp + 2) \div 5 + d - 1
        doe == yoe * 365 + yoe \div 4 - yoe \div 100 + doy
    IN era * 146097 + doe - 719468

\* whether to_datetime can assemble the row's date (and it fits a Timestamp)
DateIsValid(r) ==
    /\ r.year.t = "num" /\ r.month.t = "num" /\ r.day.t = "num"
    /\ r.year.n >= 1
    /\ r.month.n \in 1..12
    /\ r.day.n \in 1..DaysInMonth(r.year.n, r.month.n)
    /\ DaysFromCivil(r.year.n, r.month.n, r.day.n) >= DaysFromCivil(1677, 9, 22)
    /\ DaysFromCivil(r.year.n, r.month.n, r.day.n) <= DaysFromCivil(2262, 4, 11)

\* the wall-clock day pd.Timestamp.now() falls on
NowOptions == {DaysFromCivil(2024, 1, 1)}

(***************************************************************************)
(* Initial state: the frame read by pd.read_csv; nothing else exists yet.  *)
(***************************************************************************)
Init ==
    /\ pc = "drop_duplicates"
    /\ error = NoError
    /\ \E text \in InputTexts : data = read_csv(text)
    /\ np_random = [seed |-> -1, draws |-> 0]
    /\ X = <<>> /\ y = <<>>
    /\ X_train = <<>> /\ X_test = <<>> /\ y_train = <<>> /\ y_test = <<>>
    /\ scaler = None
    /\ X_train_scaled = None /\ X_test_scaled = None /\ X_scaled = None
    /\ model = None /\ grid_search = None /\ best_neural_net = None /\ xgb_model = None
    /\ dtrain = None /\ dtest = None /\ dall = None
    /\ cv_results = <<>>
    /\ y_pred = None /\ mse = None /\ rmse = None /\ mae = None /\ r2 = None
    /\ printed = [m \in {"linear", "neural", "xgboost"} |-> {}]
    /\ cv_folds = [m \in {"linear", "neural", "xgboost"} |-> <<>>]
    /\ cv_detail = [m \in {"linear", "neural", "xgboost"} |-> <<>>]
    /\ cross_val_score_lin_reg = None
    /\ cross_val_score_nn = None
    /\ cross_val_score_xgboost = None
    /\ average_scores = <<>>
    /\ rerun = [stage |-> "none", count |-> 0]
    /\ snap = <<>>

\* an uncaught exception ends the script
Raise(line, kind, m) ==
    /\ pc' = "failed"
    /\ error' = [line |-> line, kind |-> kind, model |-> m]

(***************************************************************************)
(* Data cleaning (lines 71-75).                                            *)
(***************************************************************************)
RowValues(r) == [r EXCEPT !.id = 0]

\* data.drop_duplicates(inplace=True): keeps the first of each group of equal rows
DropDuplicates ==
    /\ pc = "drop_duplicates"
    /\ data' = Mask(data, {i \in 1..Len(data) :
                    \A j \in 1..(i - 1) : RowValues(data[j]) # RowValues(data[i])})
    /\ pc' = "fillna"
    /\ UNCHANGED <<error, np_random, splitVars, scaleVars, fitVars, evalVars, cvVars, runVars>>

FillCell(c) == IF c.t = "nan" THEN Num(0) ELSE c

FillRow(r) ==
    [id |-> r.id, year |-> FillCell(r.year), month |-> FillCell(r.month),
     day |-> FillCell(r.day), deezer |-> FillCell(r.deezer), shazam |-> FillCell(r.shazam),
     streams |-> FillCell(r.streams), bpm |-> FillCell(r.bpm),
     release_date |-> FillCell(r.release_date),
     days_since_release |-> FillCell(r.days_since_release),
     anomaly |-> FillCell(r.anomaly)]

\* data.fillna(0, inplace=True)
FillNa ==
    /\ pc = "fillna"
    /\ data' = [i \in 1..Len(data) |-> FillRow(data[i])]
    /\ pc' = "to_datetime"
    /\ UNCHANGED <<error, np_random, splitVars, scaleVars, fitVars, evalVars, cvVars, runVars>>

(***************************************************************************)
(* Feature engineering (lines 84-97).                                      *)
(***************************************************************************)
\* data['release_date'] = pd.to_datetime({year, month, day}): errors='raise'
ToDatetime ==
    /\ pc = "to_datetime"
    /\ IF \A i \in 1..Len(data) : DateIsValid(data[i])
       THEN /\ data' = [i \in 1..Len(data) |->
                    [data[i] EXCEPT !.release_date =
                        Num(DaysFromCivil(data[i].year.n, data[i].month.n, data[i].day.n))]]
            /\ pc' = "days_since_release"
            /\ UNCHANGED error
       ELSE /\ Raise(85, "ValueError", "none")
            /\ UNCHANGED data
    /\ UNCHANGED <<np_random, splitVars, scaleVars, fitVars, evalVars, cvVars, runVars>>

\* data['days_since_release'] = (pd.Timestamp.now() - data['release_date']).dt.days
DaysSinceRelease ==
    /\ pc = "days_since_release"
    /\ \E now \in NowOptions :
        data' = [i \in 1..Len(data) |->
                    [data[i] EXCEPT !.days_since_release = Num(now - data[i].release_date.n)]]
    /\ pc' = "deezer_to_int"
    /\ UNCHANGED <<error, np_random, splitVars, scaleVars, fitVars, evalVars, cvVars, runVars>>

\* Series.str exists only for a column holding strings
HasStrAccessor(cells) == \E i \in 1..Len(cells) : cells[i].t = "str"

\* .str.replace(',', ''): a non-string element becomes NaN
StrReplaceCell(c) == IF c.t = "str" THEN Str(StrReplaceComma(c.s)) ELSE NaN

\* .astype(float) raises ValueError on a string that is no number
AstypeFloatRaises(c) == c.t = "str" /\ ~IsDigits(c.s)

AstypeFloat(c) == IF c.t = "str" THEN Num(ParseDigits(c.s)) ELSE c

\* .str.replace(',', '').astype(float).fillna(0).astype(int) on one cell
CountToInt(c) == FillCell(AstypeFloat(StrReplaceCell(c)))

CountRaises(c) == AstypeFloatRaises(StrReplaceCell(c))

\* data['in_deezer_playlists'] = data['in_deezer_playlists'].str.replace(...)...
DeezerToInt ==
    /\ pc = "deezer_to_int"
    /\ LET cells == [i \in 1..Len(data) |-> data[i].deezer]
       IN IF ~HasStrAccessor(cells)
          THEN Raise(92, "AttributeError", "none") /\ UNCHANGED data
          ELSE IF \E i \in 1..Len(data) : CountRaises(cells[i])
          THEN Raise(92, "ValueError", "none") /\ UNCHANGED data
          ELSE /\ data' = [i \in 1..Len(data) |->
                            [data[i] EXCEPT !.deezer = CountToInt(cells[i])]]
               /\ pc' = "shazam_to_int"
               /\ UNCHANGED error
    /\ UNCHANGED <<np_random, splitVars, scaleVars, fitVars, evalVars, cvVars, runVars>>

\* data['in_shazam_charts'] = data['in_shazam_charts'].str.replace(...)...
ShazamToInt ==
    /\ pc = "shazam_to_int"
    /\ LET cells == [i \in 1..Len(data) |-> data[i].shazam]
       IN IF ~HasStrAccessor(cells)
          THEN Raise(93, "AttributeError", "none") /\ UNCHANGED data
          ELSE IF \E i \in 1..Len(data) : CountRaises(cells[i])
          THEN Raise(93, "ValueError", "none") /\ UNCHANGED data
          ELSE /\ data' = [i \in 1..Len(data) |->
                            [data[i] EXCEPT !.shazam = CountToInt(cells[i])]]
               /\ pc' = "streams_to_numeric"
               /\ UNCHANGED error
    /\ UNCHANGED <<np_random, splitVars, scaleVars, fitVars, evalVars, cvVars, runVars>>

\* pd.to_numeric(..., errors='coerce') on one cell
ToNumericCoerce(c) ==
    IF c.t = "str" THEN (IF IsDigits(c.s) THEN Num(ParseDigits(c.s)) ELSE NaN) ELSE c

\* data['streams'] = pd.to_numeric(data['streams'], errors='coerce')
StreamsToNumeric ==
    /\ pc = "streams_to_numeric"
    /\ data' = [i \in 1..Len(data) |->
                    [data[i] EXCEPT !.streams = ToNumericCoerce(data[i].streams)]]
    /\ pc' = "dropna_streams"
    /\ UNCHANGED <<error, np_random, splitVars, scaleVars, fitVars, evalVars, cvVars, runVars>>

\* data.dropna(subset=['streams'], inplace=True)
DropNaStreams ==
    /\ pc = "dropna_streams"
    /\ data' = Mask(data, {i \in 1..Len(data) : data[i].streams.t # "nan"})
    /\ pc' = "iso_forest"
    /\ UNCHANGED <<error, np_random, splitVars, scaleVars, fitVars, evalVars, cvVars, runVars>>

(***************************************************************************)
(* Anomaly detection (lines 117-128).                                      *)
(***************************************************************************)
\* the row's values in the columns of numeric_features
Features(r) ==
    [released_year |-> r.year.n, released_month |-> r.month.n, released_day |-> r.day.n,
     in_deezer_playlists |-> r.deezer.n, in_shazam_charts |-> r.shazam.n,
     bpm |-> r.bpm.n, days_since_release |-> r.days_since_release.n]

\* Rows whose score lies strictly below the contamination percentile of the
\* n scores: at most ceil(contamination * (n - 1)) of them.
MaxFlagged(n) == IF n = 0 THEN 0 ELSE (Contamination * (n - 1) + 99) \div 100

\* The label sets fit_predict may return: the scores depend on the features
\* alone, so rows with equal features are labelled alike.
AnomalySets(rows) ==
    {S \in SUBSET (1..Len(rows)) :
        /\ Cardinality(S) <= MaxFlagged(Len(rows))
        /\ \A i \in S : \A j \in 1..Len(rows) :
                Features(rows[i]) = Features(rows[j]) => j \in S}

\* anomalies = iso_forest.fit_predict(data[numeric_features]); data['anomaly'] = anomalies
IsoForestFitPredict ==
    /\ pc = "iso_forest"
    /\ IF Len(data) = 0
       THEN Raise(121, "ValueError", "none") /\ UNCHANGED data
       ELSE /\ \E S \in AnomalySets(data) :
                data' = [i \in 1..Len(data) |->
                    [data[i] EXCEPT !.anomaly = IF i \in S THEN Num(-1) ELSE Num(1)]]
            /\ pc' = "filter_anomalies"
            /\ UNCHANGED error
    /\ UNCHANGED <<np_random, splitVars, scaleVars, fitVars, evalVars, cvVars, runVars>>

\* data = data[data['anomaly'] == 1]
FilterAnomalies ==
    /\ pc = "filter_anomalies"
    /\ data' = Mask(data, {i \in 1..Len(data) : data[i].anomaly = Num(1)})
    /\ pc' = "select_xy"
    /\ UNCHANGED <<error, np_random, splitVars, scaleVars, fitVars, evalVars, cvVars, runVars>>

(***************************************************************************)
(* Random permutations.  RandomState(seed).permutation(n), and             *)
(* np.random.seed(seed) followed by np.random.permutation(n), shuffle      *)
(* arange(n) with the Mersenne Twister seeded by `seed`; the values below  *)
(* are that shuffle's results (1-based positions) for the seeds used.      *)
(***************************************************************************)
Permutation42(n) ==
    CASE n = 0 -> <<>>
      [] n = 1 -> <<1>>
      [] n = 2 -> <<2, 1>>
      [] n = 3 -> <<1, 2, 3>>
      [] n = 4 -> <<2, 4, 1, 3>>
      [] n = 5 -> <<2, 5, 3, 1, 4>>
      [] n = 6 -> <<1, 2, 6, 3, 5, 4>>
      [] n = 7 -> <<1, 2, 6, 3, 5, 4, 7>>
      [] n = 8 -> <<2, 6, 1, 8, 3, 5, 4, 7>>
      [] n = 9 -> <<8, 2, 6, 1, 9, 3, 5, 4, 7>>
      [] n = 10 -> <<9, 2, 6, 1, 8, 3, 10, 5, 4, 7>>
      [] n = 11 -> <<6, 1, 10, 11, 3, 2, 9, 5, 8, 4, 7>>
      [] n = 12 -> <<11, 10, 1, 9, 6, 3, 2, 12, 5, 8, 4, 7>>

Permutation43(n) ==
    CASE n = 0 -> <<>>
      [] n = 1 -> <<1>>
      [] n = 2 -> <<2, 1>>
      [] n = 3 -> <<2, 3, 1>>
      [] n = 4 -> <<3, 2, 4, 1>>
      [] n = 5 -> <<4, 3, 2, 1, 5>>
      [] n = 6 -> <<6, 3, 2, 4, 1, 5>>
      [] n = 7 -> <<4, 6, 3, 7, 2, 1, 5>>
      [] n = 8 -> <<4, 8, 6, 7, 3, 2, 1, 5>>
      [] n = 9 -> <<4, 9, 7, 8, 3, 6, 2, 1, 5>>
      [] n = 10 -> <<4, 10, 7, 9, 3, 6, 2, 8, 1, 5>>
      [] n = 11 -> <<11, 8, 7, 9, 4, 10, 3, 6, 2, 1, 5>>
      [] n = 12 -> <<12, 7, 8, 9, 10, 4, 11, 3, 6, 2, 1, 5>>

Permutation(seed, n) == IF seed = 42 THEN Permutation42(n) ELSE Permutation43(n)

\* np.random.seed(seed)
np_random_seed(seed) == [seed |-> seed, draws |-> 0]

\* what np.random.permutation(n) may return in generator state g: a generator
\* never seeded by the program was seeded from OS entropy, and after other
\* draws the stream position is not the one the table describes
np_random_permutation(g, n) ==
    IF g.seed \in {42, 43} /\ g.draws = 0
    THEN {Permutation(g.seed, n)}
    ELSE {p \in [1..n -> 1..n] : \A i, j \in 1..n : p[i] = p[j] => i = j}

(***************************************************************************)
(* Feature / target selection and the train/test split (lines 194-199).    *)
(***************************************************************************)
\* X = data[numeric_features]; y = data['streams']
SelectXy ==
    /\ pc = "select_xy"
    /\ X' = [i \in 1..Len(data) |-> [id |-> data[i].id, f |-> Features(data[i])]]
    /\ y' = [i \in 1..Len(data) |-> [id |-> data[i].id, v |-> data[i].streams.n]]
    /\ pc' = "train_test_split"
    /\ UNCHANGED <<error, prepVars, X_train, X_test, y_train, y_test,
                   scaleVars, fitVars, evalVars, cvVars, runVars>>

\* n_test = ceil(test_size * n)
NTest(n) == (TestPercent * n + 99) \div 100

Take(s, idx) == [k \in 1..Len(idx) |-> s[idx[k]]]

\* a split with a different shuffle for the targets than for the features
train_test_split_unaligned(Xs, ys, seed) ==
    LET n    == Len(Xs)
        perm == Permutation(seed, n)
        alt  == Permutation(seed + 1, n)
    IN [X_train |-> Take(Xs, SubSeq(perm, NTest(n) + 1, n)),
        X_test  |-> Take(Xs, SubSeq(perm, 1, NTest(n))),
        y_train |-> Take(ys, SubSeq(alt, NTest(n) + 1, n)),
        y_test  |-> Take(ys, SubSeq(alt, 1, NTest(n)))]

\* train_test_split(X, y, test_size=0.2, random_state=seed), shuffle=True:
\* the first n_test positions of the permutation are the test rows, the rest
\* the training rows, each in the permutation's order
train_test_split(Xs, ys, seed) ==
    LET n    == Len(Xs)
        perm == Permutation(seed, n)
    IN [X_train |-> Take(Xs, SubSeq(perm, NTest(n) + 1, n)),
        X_test  |-> Take(Xs, SubSeq(perm, 1, NTest(n))),
        y_train |-> Take(ys, SubSeq(perm, NTest(n) + 1, n)),
        y_test  |-> Take(ys, SubSeq(perm, 1, NTest(n)))]

\* an empty training set is a ValueError
SplitRaises(n) == n - NTest(n) = 0

\* X_train, X_test, y_train, y_test = train_test_split(X, y, test_size=0.2, random_state=42)
TrainTestSplit ==
    /\ pc = "train_test_split"
    /\ IF SplitRaises(Len(X))
       THEN /\ Raise(199, "ValueError", "none")
            /\ UNCHANGED <<X_train, X_test, y_train, y_test>>
       ELSE LET sp == train_test_split(X, y, RandomState)
            IN /\ X_train' = sp.X_train /\ X_test' = sp.X_test
               /\ y_train' = sp.y_train /\ y_test' = sp.y_test
               /\ pc' = "scaler_fit"
               /\ UNCHANGED error
    /\ UNCHANGED <<prepVars, X, y, scaleVars, fitVars, evalVars, cvVars, runVars>>

(***************************************************************************)
(* Standardisation (lines 201-204, 321).                                   *)
(***************************************************************************)
FeatureNames == {"released_year", "released_month", "released_day", "in_deezer_playlists",
                 "in_shazam_charts", "bpm", "days_since_release"}

RECURSIVE ColumnSum(_, _, _)
\* the sum over the rows of Xs of (value of feature c) to the power p (p = 1 or 2)
ColumnSum(Xs, c, p) ==
    IF Len(Xs) = 0 THEN 0
    ELSE (IF p = 1 THEN Head(Xs).f[c] ELSE Head(Xs).f[c] * Head(Xs).f[c])
            + ColumnSum(Tail(Xs), c, p)

\* StandardScaler.fit: per feature the mean sum/n and the variance sumsq/n - mean^2,
\* kept as the exact sums they are computed from
FitStatistics(Xs) ==
    [n |-> Len(Xs),
     sum |-> [c \in FeatureNames |-> ColumnSum(Xs, c, 1)],
     sumsq |-> [c \in FeatureNames |-> ColumnSum(Xs, c, 2)]]

\* scaler.transform(Xs): the rows of Xs, in order, standardised with the statistics p
\* (the matrix is kept as the rows' ids and the statistics applied to them)
Transform(p, Xs) == [set |-> TRUE, ids |-> Ids(Xs), params |-> p]

\* scaler = StandardScaler(); X_train_scaled = scaler.fit_transform(X_train)
ScalerFitTransform ==
    /\ pc = "scaler_fit"
    /\ scaler' = [set |-> TRUE, params |-> FitStatistics(X_train), fits |-> <<Ids(X_train)>>]
    /\ X_train_scaled' = Transform(FitStatistics(X_train), X_train)
    /\ pc' = "scaler_transform_test"
    /\ UNCHANGED <<error, prepVars, splitVars, X_test_scaled, X_scaled,
                   fitVars, evalVars, cvVars, runVars>>

\* the test split fitted and transformed (fit_transform in place of transform)
ScalerTransformTest_Refit ==
    /\ pc = "scaler_transform_test"
    /\ scaler' = [set |-> TRUE, params |-> FitStatistics(X_test),
                  fits |-> Append(scaler.fits, Ids(X_test))]
    /\ X_test_scaled' = Transform(FitStatistics(X_test), X_test)
    /\ pc' = "linear_fit"
    /\ UNCHANGED <<error, prepVars, splitVars, X_train_scaled, X_scaled,
                   fitVars, evalVars, cvVars, runVars>>

\* X_test_scaled = scaler.transform(X_test)
ScalerTransformTest ==
    /\ pc = "scaler_transform_test"
    /\ X_test_scaled' = Transform(scaler.params, X_test)
    /\ pc' = "linear_fit"
    /\ UNCHANGED <<error, prepVars, splitVars, scaler, X_train_scaled, X_scaled,
                   fitVars, evalVars, cvVars, runVars>>

(***************************************************************************)
(* Metrics (sklearn.metrics).  A metric value is kept as the exact         *)
(* fraction it is computed from, with the prediction vector and the        *)
(* targets it was computed on.                                             *)
(***************************************************************************)
Square(a) == a * a
Abs(a) == IF a < 0 THEN -a ELSE a

Values(ys) == [i \in 1..Len(ys) |-> ys[i].v]

Metric(name, num, den, yt, yp) ==
    [set |-> TRUE, metric |-> name, num |-> num, den |-> den,
     of |-> yp.model, pred |-> yp.vals, on |-> Ids(yt)]

\* mean_squared_error(y_true, y_pred): num / den
mean_squared_error(yt, yp) ==
    Metric("MSE", SumSeq([i \in 1..Len(yt) |-> Square(yt[i].v - yp.vals[i])]), Len(yt), yt, yp)

\* mean_squared_error(y_true, y_pred, squared=False): sqrt(num / den)
root_mean_squared_error(yt, yp) ==
    Metric("RMSE", SumSeq([i \in 1..Len(yt) |-> Square(yt[i].v - yp.vals[i])]), Len(yt), yt, yp)

\* mean_absolute_error(y_true, y_pred): num / den
mean_absolute_error(yt, yp) ==
    Metric("MAE", SumSeq([i \in 1..Len(yt) |-> Abs(yt[i].v - yp.vals[i])]), Len(yt), yt, yp)

\* r2_score(y_true, y_pred): 1 - num / den, with num = n * SSres and
\* den = n * SStot = n * sum(y^2) - sum(y)^2
r2_score(yt, yp) ==
    Metric("R2",
           Len(yt) * SumSeq([i \in 1..Len(yt) |-> Square(yt[i].v - yp.vals[i])]),
           Len(yt) * SumSeq([i \in 1..Len(yt) |-> Square(yt[i].v)])
                - Square(SumSeq(Values(yt))),
           yt, yp)

\* the vectors a fitted regressor may predict for rows whose targets are ys
PredictionOptions(ys) == {Values(ys), [i \in 1..Len(ys) |-> ys[i].v + 1]}

(***************************************************************************)
(* Linear regression (lines 206-225).                                      *)
(***************************************************************************)
Fitted(kind, Xids, yids, cfg) ==
    [set |-> TRUE, kind |-> kind, train |-> Xids, target |-> yids, config |-> cfg]

NoConfig == [activation |-> "", solver |-> "", max_iter |-> 0, alpha |-> 0]

\* model = LinearRegression(); model.fit(X_train_scaled, y_train)
LinearFit ==
    /\ pc = "linear_fit"
    /\ model' = Fitted("linear", X_train_scaled.ids, Ids(y_train), NoConfig)
    /\ pc' = "linear_predict"
    /\ UNCHANGED <<error, prepVars, splitVars, scaleVars, grid_search, best_neural_net,
                   xgb_model, dtrain, dtest, dall, cv_results, evalVars, cvVars, runVars>>

\* y_pred = model.predict(X_test_scaled)
LinearPredict ==
    /\ pc = "linear_predict"
    /\ \E vals \in PredictionOptions(y_test) :
        y_pred' = [set |-> TRUE, model |-> model.kind, on |-> X_test_scaled.ids, vals |-> vals]
    /\ pc' = "linear_metrics"
    /\ UNCHANGED <<error, prepVars, splitVars, scaleVars, fitVars,
                   mse, rmse, mae, r2, printed, cvVars, runVars>>

\* mse, rmse, mae, r2 = ...; the four print statements
LinearMetrics ==
    /\ pc = "linear_metrics"
    /\ mse' = mean_squared_error(y_test, y_pred)
    /\ rmse' = root_mean_squared_error(y_test, y_pred)
    /\ mae' = mean_absolute_error(y_test, y_pred)
    /\ r2' = r2_score(y_test, y_pred)
    /\ printed' = [printed EXCEPT !["linear"] = {mse', rmse', mae', r2'}]
    /\ pc' = "grid_search_fit"
    /\ UNCHANGED <<error, prepVars, splitVars, scaleVars, fitVars, y_pred, cvVars, runVars>>

(***************************************************************************)
(* Neural network with grid search (lines 238-262).                        *)
(***************************************************************************)
\* param_grid; alpha in thousandths
ParamGrid ==
    [activation : {"relu", "logistic"}, solver : {"adam", "lbfgs"},
     max_iter : {3000, 4000}, alpha : {1, 10}]

\* KFold(n_splits) refuses fewer samples than splits
KFoldRaises(n, k) == n < k

\* grid_search = GridSearchCV(neural_net, param_grid, cv=5, ...); grid_search.fit(...)
GridSearchFit ==
    /\ pc = "grid_search_fit"
    /\ IF KFoldRaises(Len(X_train_scaled.ids), NFold)
       THEN Raise(253, "ValueError", "neural") /\ UNCHANGED grid_search
       ELSE /\ \E best \in ParamGrid :
                grid_search' = Fitted("neural", X_train_scaled.ids, Ids(y_train), best)
            /\ pc' = "best_refit"
            /\ UNCHANGED error
    /\ UNCHANGED <<prepVars, splitVars, scaleVars, model, best_neural_net,
                   xgb_model, dtrain, dtest, dall, cv_results, evalVars, cvVars, runVars>>

\* best_neural_net = grid_search.best_estimator_; best_neural_net.fit(X_train_scaled, y_train)
BestRefit ==
    /\ pc = "best_refit"
    /\ best_neural_net' =
            Fitted("neural", X_train_scaled.ids, Ids(y_train), grid_search.config)
    /\ pc' = "neural_predict"
    /\ UNCHANGED <<error, prepVars, splitVars, scaleVars, model, grid_search,
                   xgb_model, dtrain, dtest, dall, cv_results, evalVars, cvVars, runVars>>

\* y_pred = best_neural_net.predict(X_test_scaled)
NeuralPredict ==
    /\ pc = "neural_predict"
    /\ \E vals \in PredictionOptions(y_test) :
        y_pred' = [set |-> TRUE, model |-> best_neural_net.kind,
                   on |-> X_test_scaled.ids, vals |-> vals]
    /\ pc' = "neural_metrics"
    /\ UNCHANGED <<error, prepVars, splitVars, scaleVars, fitVars,
                   mse, rmse, mae, r2, printed, cvVars, runVars>>

\* mse = ...; r2 = ...; print(R-squared)
NeuralMetrics ==
    /\ pc = "neural_metrics"
    /\ mse' = mean_squared_error(y_test, y_pred)
    /\ r2' = r2_score(y_test, y_pred)
    /\ printed' = [printed EXCEPT !["neural"] = {r2'}]
    /\ pc' = "xgb_split"
    /\ UNCHANGED <<error, prepVars, splitVars, scaleVars, fitVars, y_pred, rmse, mae,
                   cvVars, runVars>>

(***************************************************************************)
(* XGBoost (lines 264-294).                                                *)
(***************************************************************************)
\* the second split drawn with another random_state
XgbSplit_OtherSeed ==
    /\ pc = "xgb_split"
    /\ LET sp == train_test_split(X, y, RandomState + 1)
       IN /\ X_train' = sp.X_train /\ X_test' = sp.X_test
          /\ y_train' = sp.y_train /\ y_test' = sp.y_test
    /\ pc' = "xgb_dmatrix"
    /\ UNCHANGED <<error, prepVars, X, y, scaleVars, fitVars, evalVars, cvVars, runVars>>

\* X_train, X_test, y_train, y_test = train_test_split(X, y, test_size=0.2, random_state=42)
XgbSplit ==
    /\ pc = "xgb_split"
    /\ LET sp == train_test_split(X, y, RandomState)
       IN /\ X_train' = sp.X_train /\ X_test' = sp.X_test
          /\ y_train' = sp.y_train /\ y_test' = sp.y_test
    /\ pc' = "xgb_dmatrix"
    /\ UNCHANGED <<error, prepVars, X, y, scaleVars, fitVars, evalVars, cvVars, runVars>>

\* xgb.DMatrix(Xs, label=ys)
DMatrix(Xs, ys) == [set |-> TRUE, ids |-> Ids(Xs), label |-> ys]

\* dtrain = ...; dtest = ...; dall = ...
XgbDMatrix ==
    /\ pc = "xgb_dmatrix"
    /\ dtrain' = DMatrix(X_train, y_train)
    /\ dtest' = DMatrix(X_test, y_test)
    /\ dall' = DMatrix(X, y)
    /\ pc' = "xgb_cv_train"
    /\ UNCHANGED <<error, prepVars, splitVars, scaleVars, model, grid_search,
                   best_neural_net, xgb_model, cv_results, evalVars, cvVars, runVars>>

\* The frames xgb.cv may return: one row per boosting round, the columns
\* train-rmse-mean, train-rmse-std, test-rmse-mean, test-rmse-std (the means
\* over the folds, at that round).
RmseProfiles ==
    {[r \in 1..NumBoostRound |-> <<2, 0, 3, 0>>],
     [r \in 1..NumBoostRound |->
        IF 2 * r < NumBoostRound THEN <<5, 1, 6, 1>> ELSE <<2, 0, 3, 0>>]}

\* n // k, without the n % k extra rows of the first folds
KFoldSizes_NoRemainder(n, k) == [i \in 1..k |-> n \div k]

\* fold sizes of KFold and of np.array_split: the first n % k folds have
\* n // k + 1 rows, the others n // k
KFoldSizes(n, k) == [i \in 1..k |-> n \div k + (IF i <= n % k THEN 1 ELSE 0)]

FoldStart(sizes, i) == 1 + SumSeq(SubSeq(sizes, 1, i - 1))

\* np.array_split(idx, k)
ArraySplit(idx, k) ==
    LET sizes == KFoldSizes(Len(idx), k)
    IN [i \in 1..k |-> SubSeq(idx, FoldStart(sizes, i), FoldStart(sizes, i) + sizes[i] - 1)]

RECURSIVE Concat(_)
Concat(ss) == IF Len(ss) = 0 THEN <<>> ELSE Head(ss) \o Concat(Tail(ss))

\* KFold(k).split over n rows, no shuffle: held-out fold i is the i-th block of
\* consecutive positions, its training rows are all other positions in order
KFoldSplit(ids, k) ==
    LET blocks == ArraySplit([i \in 1..Len(ids) |-> i], k)
    IN [i \in 1..k |->
            [test |-> Take(ids, blocks[i]),
             train |-> Take(ids, Mask([j \in 1..Len(ids) |-> j],
                                      (1..Len(ids)) \ Range(blocks[i])))]]

\* xgboost's mknfold: held-out fold i is the i-th block of the shuffled
\* positions, its training rows are the other blocks concatenated
XgbFolds(ids, perm, k) ==
    LET blocks == ArraySplit(perm, k)
    IN [i \in 1..k |->
            [test |-> Take(ids, blocks[i]),
             train |-> Take(ids, Concat(Mask(blocks, (1..k) \ {i})))]]

\* cv_results = xgb.cv(params, dtrain, num_boost_round=100, nfold=5, ..., seed=42)
XgbCvTrain ==
    /\ pc = "xgb_cv_train"
    /\ \E perm \in np_random_permutation(np_random_seed(RandomState), Len(dtrain.ids)) :
        np_random' = [seed |-> RandomState, draws |-> 1]
    /\ \E frame \in RmseProfiles : cv_results' = frame
    /\ pc' = "xgb_train"
    /\ UNCHANGED <<error, data, splitVars, scaleVars, model, grid_search, best_neural_net,
                   xgb_model, dtrain, dtest, dall, evalVars, cvVars, runVars>>

\* xgb_model = xgb.train(params, dtrain, num_boost_round=100)
XgbTrain ==
    /\ pc = "xgb_train"
    /\ xgb_model' = Fitted("xgboost", dtrain.ids, Ids(dtrain.label), NoConfig)
    /\ pc' = "xgb_predict"
    /\ UNCHANGED <<error, prepVars, splitVars, scaleVars, model, grid_search,
                   best_neural_net, dtrain, dtest, dall, cv_results, evalVars, cvVars, runVars>>

\* y_pred = xgb_model.predict(dtest)
XgbPredict ==
    /\ pc = "xgb_predict"
    /\ \E vals \in PredictionOptions(dtest.label) :
        y_pred' = [set |-> TRUE, model |-> xgb_model.kind, on |-> dtest.ids, vals |-> vals]
    /\ pc' = "xgb_r2"
    /\ UNCHANGED <<error, prepVars, splitVars, scaleVars, fitVars,
                   mse, rmse, mae, r2, printed, cvVars, runVars>>

\* r2 = r2_score(y_test, y_pred); print(R-squared)
XgbR2 ==
    /\ pc = "xgb_r2"
    /\ r2' = r2_score(y_test, y_pred)
    /\ printed' = [printed EXCEPT !["xgboost"] = {r2'}]
    /\ pc' = "scale_all"
    /\ UNCHANGED <<error, prepVars, splitVars, scaleVars, fitVars, y_pred, mse, rmse, mae,
                   cvVars, runVars>>

(***************************************************************************)
(* Comparing models by cross-validation (lines 319-329).                   *)
(***************************************************************************)
\* X_scaled = scaler.transform(X)
ScaleAll ==
    /\ pc = "scale_all"
    /\ X_scaled' = Transform(scaler.params, X)
    /\ pc' = "cv_linear"
    /\ UNCHANGED <<error, prepVars, splitVars, scaler, X_train_scaled, X_test_scaled,
                   fitVars, evalVars, cvVars, runVars>>

\* The arrays cross_val_score(..., scoring='neg_root_mean_squared_error') may
\* return: per fold, minus the RMSE of that fold's fitted clone on its held-out rows.
FoldScoreOptions(k) == {[i \in 1..k |-> -3], [i \in 1..k |-> -(2 + (i % 2))]}

Negate(a) == [i \in 1..Len(a) |-> -a[i]]

\* ndarray.mean(): num / den
Mean(a) == [set |-> TRUE, num |-> SumSeq(a), den |-> Len(a)]

RECURSIVE ColumnTotal(_, _, _)
\* the sum of column c (1-based) over the first r rows of the frame
ColumnTotal(frame, c, r) == IF r = 0 THEN 0 ELSE frame[r][c] + ColumnTotal(frame, c, r - 1)

\* DataFrame.mean()[c]: the mean over the rows of the frame's column at position c (0-based)
FrameColumnMean(frame, c) ==
    [set |-> TRUE, num |-> ColumnTotal(frame, c + 1, NumBoostRound), den |-> NumBoostRound]

\* cross_val_score_lin_reg = (-cross_val_score(model, X_scaled, y, cv=5, ...)).mean()
CvLinear ==
    /\ pc = "cv_linear"
    /\ IF KFoldRaises(Len(X_scaled.ids), NFold)
       THEN /\ Raise(324, "ValueError", "linear")
            /\ UNCHANGED <<cv_folds, cv_detail, cross_val_score_lin_reg>>
       ELSE /\ cv_folds' = [cv_folds EXCEPT !["linear"] = KFoldSplit(X_scaled.ids, NFold)]
            /\ \E scores \in FoldScoreOptions(NFold) :
                /\ cv_detail' = [cv_detail EXCEPT !["linear"] = scores]
                /\ cross_val_score_lin_reg' = Mean(Negate(scores))
            /\ pc' = "cv_neural"
            /\ UNCHANGED error
    /\ UNCHANGED <<prepVars, splitVars, scaleVars, fitVars, evalVars,
                   cross_val_score_nn, cross_val_score_xgboost, average_scores, runVars>>

\* cross_val_score_nn = (-cross_val_score(best_neural_net, X_scaled, y, cv=5, ...)).mean()
CvNeural ==
    /\ pc = "cv_neural"
    /\ IF KFoldRaises(Len(X_scaled.ids), NFold)
       THEN /\ Raise(325, "ValueError", "neural")
            /\ UNCHANGED <<cv_folds, cv_detail, cross_val_score_nn>>
       ELSE /\ cv_folds' = [cv_folds EXCEPT !["neural"] = KFoldSplit(X_scaled.ids, NFold)]
            /\ \E scores \in FoldScoreOptions(NFold) :
                /\ cv_detail' = [cv_detail EXCEPT !["neural"] = scores]
                /\ cross_val_score_nn' = Mean(Negate(scores))
            /\ pc' = "cv_xgboost"
            /\ UNCHANGED error
    /\ UNCHANGED <<prepVars, splitVars, scaleVars, fitVars, evalVars,
                   cross_val_score_lin_reg, cross_val_score_xgboost, average_scores, runVars>>

\* cross_val_score_xgboost = xgb.cv(params, dall, num_boost_round=100, nfold=5, ..., seed=42).mean()[2]
CvXgboost ==
    /\ pc = "cv_xgboost"
    /\ \E perm \in np_random_permutation(np_random_seed(RandomState), Len(dall.ids)) :
        /\ cv_folds' = [cv_folds EXCEPT !["xgboost"] = XgbFolds(dall.ids, perm, NFold)]
        /\ np_random' = [seed |-> RandomState, draws |-> 1]
    /\ \E frame \in RmseProfiles :
        /\ cv_detail' = [cv_detail EXCEPT !["xgboost"] = frame]
        /\ cross_val_score_xgboost' = FrameColumnMean(frame, 2)
    /\ pc' = "average_scores"
    /\ UNCHANGED <<error, data, splitVars, scaleVars, fitVars, evalVars,
                   cross_val_score_lin_reg, cross_val_score_nn, average_scores, runVars>>

\* average_scores = [cross_val_score_lin_reg, cross_val_score_nn, cross_val_score_xgboost]
AverageScores ==
    /\ pc = "average_scores"
    /\ average_scores' = <<cross_val_score_lin_reg, cross_val_score_nn, cross_val_score_xgboost>>
    /\ pc' = "done"
    /\ UNCHANGED <<error, prepVars, splitVars, scaleVars, fitVars, evalVars,
                   cv_folds, cv_detail, cross_val_score_lin_reg, cross_val_score_nn,
                   cross_val_score_xgboost, runVars>>

(***************************************************************************)
(* Notebook re-execution of a stage, right after the stage has run.        *)
(***************************************************************************)
Stages == {"cleaning", "features", "outliers", "split", "scale"}

StageStart(st) ==
    CASE st = "cleaning" -> "drop_duplicates"
      [] st = "features" -> "to_datetime"
      [] st = "outliers" -> "iso_forest"
      [] st = "split" -> "select_xy"
      [] st = "scale" -> "scaler_fit"

StageEnd(st) ==
    CASE st = "cleaning" -> "to_datetime"
      [] st = "features" -> "iso_forest"
      [] st = "outliers" -> "select_xy"
      [] st = "split" -> "scaler_fit"
      [] st = "scale" -> "linear_fit"

\* the source lines of a stage
StageLines(st) ==
    CASE st = "cleaning" -> 71..75
      [] st = "features" -> 84..97
      [] st = "outliers" -> 117..128
      [] st = "split" -> 194..199
      [] st = "scale" -> 201..204

PipelineState == <<data, X, y, X_train, X_test, y_train, y_test,
                   scaler, X_train_scaled, X_test_scaled, X_scaled>>

RerunStage ==
    /\ rerun.count < MaxReruns
    /\ \E st \in Stages :
        /\ pc = StageEnd(st)
        /\ pc' = StageStart(st)
        /\ rerun' = [stage |-> st, count |-> rerun.count + 1]
    /\ snap' = PipelineState
    /\ UNCHANGED <<error, prepVars, splitVars, scaleVars, fitVars, evalVars, cvVars>>

Next ==
    \/ DropDuplicates
    \/ FillNa
    \/ ToDatetime
    \/ DaysSinceRelease
    \/ DeezerToInt
    \/ ShazamToInt
    \/ StreamsToNumeric
    \/ DropNaStreams
    \/ IsoForestFitPredict
    \/ FilterAnomalies
    \/ SelectXy
    \/ TrainTestSplit
    \/ ScalerFitTransform
    \/ ScalerTransformTest
    \/ LinearFit
    \/ LinearPredict
    \/ LinearMetrics
    \/ GridSearchFit
    \/ BestRefit
    \/ NeuralPredict
    \/ NeuralMetrics
    \/ XgbSplit
    \/ XgbDMatrix
    \/ XgbCvTrain
    \/ XgbTrain
    \/ XgbPredict
    \/ XgbR2
    \/ ScaleAll
    \/ CvLinear
    \/ CvNeural
    \/ CvXgboost
    \/ AverageScores

\* the script run top to bottom
Spec == Init /\ [][Next]_vars

\* the notebook's preparation stages, each of which may be run again
NextRerun ==
    \/ DropDuplicates
    \/ FillNa
    \/ ToDatetime
    \/ DaysSinceRelease
    \/ DeezerToInt
    \/ ShazamToInt
    \/ StreamsToNumeric
    \/ DropNaStreams
    \/ IsoForestFitPredict
    \/ FilterAnomalies
    \/ SelectXy
    \/ TrainTestSplit
    \/ ScalerFitTransform
    \/ ScalerTransformTest
    \/ RerunStage

SpecRerun == Init /\ [][NextRerun]_vars

(***************************************************************************)
(* Properties.                                                             *)
(***************************************************************************)
Models == {"linear", "neural", "xgboost"}
MetricNames == {"MSE", "RMSE", "MAE", "R2"}

IsSorted(ids) == \A i, j \in 1..Len(ids) : i < j => ids[i] < ids[j]
Aligned(Xs, ys) == Ids(Xs) = Ids(ys)
SeqSet(ids) == {ids[i] : i \in 1..Len(ids)}

\* C1: when the script has finished, every one of the three models has all four
\* metrics MSE, RMSE, MAE and R2 reported, each computed from that model's own
\* prediction vector on the held-out test targets.
C1_AllFourMetricsPerModel ==
    pc = "done" =>
        \A m \in Models : \A name \in MetricNames :
            \E v \in printed[m] : v.metric = name /\ v.of = m /\ v.on = Ids(y_test)

\* C2: a row whose year/month/day is not a calendar date never makes the run
\* fail: the run is never ended by to_datetime.
C2_InvalidDateDoesNotAbort ==
    ~(/\ pc = "failed"
      /\ error.line = 85
      /\ \E i \in 1..Len(data) : ~DateIsValid(data[i]))

\* C3: normalising in_deezer_playlists and in_shazam_charts never ends the run,
\* and once both statements have run every value of the two columns is a number.
C3_CountNormalizationTotal ==
    /\ ~(pc = "failed" /\ error.line \in {92, 93})
    /\ pc \in {"streams_to_numeric", "dropna_streams", "iso_forest"} =>
            \A i \in 1..Len(data) : data[i].deezer.t = "num" /\ data[i].shazam.t = "num"

\* C4: when the fit or the evaluation of one model has raised, the other two
\* models still have their single-split metrics and their cross-validated score.
C4_ModelFailureIsolated ==
    (pc = "failed" /\ error.model \in Models) =>
        \A m \in Models \ {error.model} :
            /\ printed[m] # {}
            /\ CASE m = "linear" -> cross_val_score_lin_reg.set
                 [] m = "neural" -> cross_val_score_nn.set
                 [] m = "xgboost" -> cross_val_score_xgboost.set

\* C5: the scaler is fitted exactly once, on the rows of the training split only,
\* its statistics are those of the training split and never change, and every
\* transform (training split, test split, full matrix) uses those statistics.
C5_ScalerFittedOnceOnTrain ==
    scaler.set =>
        /\ Len(scaler.fits) = 1
        /\ scaler.fits[1] = X_train_scaled.ids
        /\ SeqSet(scaler.fits[1]) \cap IdSet(X_test) = {}
        /\ scaler.fits[1] = Ids(X_train)
        /\ scaler.params = FitStatistics(X_train)
        /\ X_train_scaled.params = scaler.params
        /\ X_test_scaled.set => X_test_scaled.params = X_train_scaled.params
        /\ X_scaled.set => X_scaled.params = X_train_scaled.params

\* C5 witness: the run has finished, all three matrices were transformed, and
\* the statistics of the full matrix differ from the fitted ones.
C5_Witness ==
    /\ pc = "done"
    /\ X_test_scaled.set /\ X_scaled.set
    /\ FitStatistics(X) # scaler.params

\* the held-out rows of all folds, fold after fold
HeldOut(folds) == Concat([i \in 1..Len(folds) |-> folds[i].test])

\* every row of Xs is held out exactly once
HeldOutOnce(folds, Xs) ==
    LET held == HeldOut(folds)
    IN /\ Len(held) = Len(Xs)
       /\ \A id \in IdSet(Xs) : Cardinality({j \in 1..Len(held) : held[j] = id}) = 1

\* C6: in each 5-fold cross-validation of the comparison the held-out folds
\* partition the rows of the filtered dataset (every row held out exactly once),
\* each fold trains on exactly the rows it does not hold out, the two
\* scikit-learn cross-validations use the same folds, and the xgboost folds are
\* drawn right after seeding the generator with the fixed seed.
C6_FoldsPartitionRows ==
    /\ \A m \in Models :
        cv_folds[m] # <<>> =>
            /\ Len(cv_folds[m]) = NFold
            /\ HeldOutOnce(cv_folds[m], X)
            /\ \A i \in 1..NFold :
                /\ SeqSet(cv_folds[m][i].test) \subseteq IdSet(X)
                /\ SeqSet(cv_folds[m][i].train) = IdSet(X) \ SeqSet(cv_folds[m][i].test)
                /\ Len(cv_folds[m][i].train) + Len(cv_folds[m][i].test) = Len(X)
    /\ (cv_folds["linear"] # <<>> /\ cv_folds["neural"] # <<>>) =>
            cv_folds["linear"] = cv_folds["neural"]
    /\ cv_folds["xgboost"] # <<>> =>
            /\ np_random = [seed |-> RandomState, draws |-> 1]
            /\ \A i \in 1..NFold :
                cv_folds["xgboost"][i].test =
                    Take(Ids(X), ArraySplit(Permutation(RandomState, Len(X)), NFold)[i])

\* C6 witness: all three cross-validations have run over a number of rows that
\* is not a multiple of 5, so the folds have unequal sizes.
C6_Witness ==
    /\ pc = "done"
    /\ \A m \in Models : cv_folds[m] # <<>>
    /\ Len(X) % NFold # 0

\* C7: each of the three reported scores is the mean over the folds of the RMSE
\* of the fold's final fitted model: for scikit-learn the mean of the per-fold
\* RMSEs, for xgboost the last boosting round's test-rmse-mean.
C7_SameQuantity ==
    pc = "done" =>
        /\ cross_val_score_lin_reg = Mean(Negate(cv_detail["linear"]))
        /\ cross_val_score_nn = Mean(Negate(cv_detail["neural"]))
        /\ cross_val_score_xgboost.num =
                cross_val_score_xgboost.den * cv_detail["xgboost"][NumBoostRound][3]

\* C8 (as claimed): no stage permutes rows: the frame, the matrices and both
\* halves of the train/test split list their rows in input order, and features
\* and targets are aligned row by row.
C8_NoStagePermutesRows ==
    /\ IsSorted(Ids(data)) /\ IsSorted(Ids(X))
    /\ IsSorted(Ids(X_train)) /\ IsSorted(Ids(X_test))
    /\ Aligned(X, y) /\ Aligned(X_train, y_train) /\ Aligned(X_test, y_test)

\* C8 (amended): every stage other than the train/test split keeps the rows in
\* input order apart from deleted rows; the split puts every row of X in exactly
\* one of the two halves (in the order of its seeded shuffle); the scaler keeps
\* the order of the matrix it is given; features and targets are always aligned.
C8_OrderKeptExceptSplit ==
    /\ IsSorted(Ids(data)) /\ IsSorted(Ids(X))
    /\ SeqSet(Ids(X)) \subseteq IdSet(data)
    /\ Aligned(X, y) /\ Aligned(X_train, y_train) /\ Aligned(X_test, y_test)
    /\ \A i \in 1..Len(X) : \E j \in 1..Len(data) :
            data[j].id = X[i].id /\ y[i].v = data[j].streams.n /\ X[i].f = Features(data[j])
    /\ Len(X_train) + Len(X_test) > 0 =>
            /\ IdSet(X_train) \cup IdSet(X_test) = IdSet(X)
            /\ Len(X_train) + Len(X_test) = Len(X)
            /\ \A i \in 1..Len(X_train) : \E j \in 1..Len(X) :
                    X_train[i] = X[j] /\ y_train[i] = y[j]
            /\ \A i \in 1..Len(X_test) : \E j \in 1..Len(X) :
                    X_test[i] = X[j] /\ y_test[i] = y[j]
    /\ X_train_scaled.set => X_train_scaled.ids = Ids(X_train)
    /\ X_test_scaled.set => X_test_scaled.ids = Ids(X_test)
    /\ X_scaled.set => X_scaled.ids = Ids(X)

\* C8 witness: the run has finished and the training half of the split is not
\* in input order.
C8_Witness ==
    /\ pc = "done"
    /\ ~IsSorted(Ids(X_train))
    /\ X_scaled.set

\* C9: a stage run again right after it has run succeeds and leaves the
\* pipeline state as it was (the state of a fresh run up to that stage).
C9_RerunEqualsFresh ==
    rerun.stage # "none" =>
        /\ ~(pc = "failed" /\ error.line \in StageLines(rerun.stage))
        /\ pc = StageEnd(rerun.stage) => PipelineState = snap

\* C10: the second train/test split selects the same rows as the first, so the
\* metrics of all three models are computed on the same held-out rows and
\* targets, and no held-out row is among the rows any of the three models (or
\* the grid search) was fitted on.
C10_SameTestSetForAllModels ==
    /\ \A m \in Models : \A v \in printed[m] :
            v.of = m /\ v.on = X_test_scaled.ids /\ v.on = Ids(y_test)
    /\ dtest.set =>
            /\ dtest.ids = X_test_scaled.ids
            /\ Ids(dtest.label) = dtest.ids
            /\ dtrain.ids = X_train_scaled.ids
            /\ \A i \in 1..Len(y_test) : \E j \in 1..Len(y) : y_test[i] = y[j]
    /\ \A fit \in {model, grid_search, best_neural_net, xgb_model} :
            fit.set =>
                /\ SeqSet(fit.train) \cap SeqSet(X_test_scaled.ids) = {}
                /\ SeqSet(fit.train) \cap IdSet(X_test) = {}
                /\ fit.target = fit.train

\* C10 witness: the run has finished with all three models evaluated on a
\* test split of at least two rows.
C10_Witness ==
    /\ pc = "done"
    /\ \A m \in Models : printed[m] # {}
    /\ xgb_model.set
    /\ Len(X_test) >= 2

====
